---- MODULE Spec2Model ----
(***************************************************************************)
(* Capsule-hotel booking domain of src/main.py: Guest, Capsule, Booking    *)
(* and the Hotel aggregate, as a state machine.                            *)
(*                                                                         *)
(* Conventions                                                             *)
(*  - calendar dates are integers (days); `today` is date.today().         *)
(*  - a Booking object is identified by its position in `objs` (Python     *)
(*    object identity; Booking defines no __eq__).  None is 0.             *)
(*  - a Guest object is identified by its guest_id, a Capsule object by    *)
(*    its capsule_id (the Hotel never removes either).                     *)
(*  - a price is an integer number of roubles; the random factor           *)
(*    random.uniform(-0.1, 0.1) is a whole percentage drawn from JitterPct.*)
(*  - an error is the kind that the message of the raised exception names: *)
(*    GuestError is GuestNotFound or DuplicatePassport, CapsuleError is    *)
(*    CapsuleNotFound or CapsuleUnavailable, BookingError is               *)
(*    DateRangeInvalid, DateInPast, DurationTooLong or BookingNotFound,    *)
(*    PaymentError is AlreadyPaid or PaymentLocked; StorageError is an     *)
(*    sqlite3 error out of save_to_db.                                     *)
(*  - `last` records the last call and how it ended (for a query, also     *)
(*    what it returned); the field `created` of a Booking object records   *)
(*    the day it was constructed.  Neither is read by any operation.       *)
(*  - Spec is the Hotel under its state-changing operations, SpecUi the    *)
(*    Hotel under the buttons of the desktop window, SpecQuery the Hotel   *)
(*    with its queries, SpecOrder the Hotel under create_booking with      *)
(*    every combination of arguments, SpecPrice the Hotel with capsules of *)
(*    every type and price, SpecRestart the Hotel over several runs of the *)
(*    process, SpecSessions the Hotel under the create_booking calls of    *)
(*    two chat sessions, statement by statement, SpecBot the Hotel under   *)
(*    the handlers of the Telegram bot.                                    *)
(***************************************************************************)
EXTENDS Integers, Sequences, FiniteSets, TLC

\* ------------------------------------------------------------------ bounds
MaxGuests == 2
MaxCapsules == 2
\* Booking objects that were ever attached to a capsule
MaxObjs == 3
\* last day the clock reaches
MaxDay == 1
NumPassports == 2
\* capacity of the recent-history deque: deque(maxlen=1000) scaled down, so
\* that a run of MaxObjs bookings fills it and evicts
HistoryMaxLen == 2

\* Booking objects in the specification of the queries: one more than
\* MaxObjs, so that the history buffer can have evicted after a failed call
MaxQueryObjs == 4

\* chat sessions whose handlers run at the same time
NumSessions == 2

\* ------------------------------------------------------- program constants
MaxSpan == 30
DefaultBasePrice == 1000

None == 0

TYPE_STANDARD == "Standard"
TYPE_LUX == "Lux"
TYPE_PREMIUM == "Premium"

\* ------------------------------------------------------------------ inputs
Passports == 1..NumPassports
Phones == {"+79000000001"}
\* raw names as typed, character by character
RawNames == { <<"a", " ", "b">>, <<" ", "A", " ", " ", "B">> }
CapsuleTypeInputs == {TYPE_STANDARD}
JitterPct == {10}
GuestIds == 1..MaxGuests
CapsuleIds == 1..MaxCapsules
BookingIds == 1..MaxObjs
StartOffsets == {-1, 0}
SpanChoices == {0, MaxSpan, MaxSpan + 1}

\* inputs of the specification of the queries
QueryNames == { <<"a", " ", "b">>, <<"b">> }
QueryCapsuleTypes == {TYPE_STANDARD, TYPE_LUX}
QueryOffsets == {-1, 0, 1, MaxSpan, MaxSpan + 1}
RecentCounts == 0..(HistoryMaxLen + 1)

Sessions == 1..NumSessions
\* a session that is in no call
NoCall == [pc |-> "idle", guest_id |-> 0, capsule_id |-> 0,
           start_date |-> 0, end_date |-> 0, b |-> 0]

VARIABLES
    guests,           \* Hotel.guests: guest_id -> Guest
    capsules,         \* Hotel.capsules: capsule_id -> Capsule
    bookings,         \* Hotel.bookings: booking_id -> Booking object
    objs,             \* the Booking objects, by identity
    used_passports,   \* Guest._used_passports
    booking_history,  \* Booking._booking_history
    next_guest_id,
    next_capsule_id,
    next_booking_id,
    today,            \* datetime.date.today()
    db_bookings,      \* table bookings of hotel.db: booking_id -> row
    calls,            \* the create_booking call each chat session is in
    last              \* the last call and how it ended

domain_vars == <<guests, capsules, bookings, objs, used_passports,
                 booking_history, next_guest_id, next_capsule_id,
                 next_booking_id, db_bookings, calls>>
vars == <<guests, capsules, bookings, objs, used_passports, booking_history,
          next_guest_id, next_capsule_id, next_booking_id, today,
          db_bookings, calls, last>>

\* ------------------------------------------------------------ name helpers
Upper(c) == CASE c = "a" -> "A" [] c = "b" -> "B" [] OTHER -> c
Lower(c) == CASE c = "A" -> "a" [] c = "B" -> "b" [] OTHER -> c

RECURSIVE SplitFrom(_, _, _)
SplitFrom(s, cur, acc) ==
    IF s = <<>>
    THEN IF cur = <<>> THEN acc ELSE Append(acc, cur)
    ELSE IF Head(s) = " "
         THEN SplitFrom(Tail(s), <<>>, IF cur = <<>> THEN acc ELSE Append(acc, cur))
         ELSE SplitFrom(Tail(s), Append(cur, Head(s)), acc)

\* str.split(): the maximal runs of non-whitespace characters
Split(s) == SplitFrom(s, <<>>, <<>>)

\* str.capitalize(): first character upper case, the rest lower case
Capitalize(w) == [i \in 1..Len(w) |-> IF i = 1 THEN Upper(w[i]) ELSE Lower(w[i])]

RECURSIVE Join(_)
Join(ws) ==
    IF ws = <<>> THEN <<>>
    ELSE IF Len(ws) = 1 THEN ws[1]
    ELSE ws[1] \o <<" ">> \o Join(Tail(ws))

NormalizeName(name) ==
    LET parts == Split(name)
    IN Join([i \in 1..Len(parts) |-> Capitalize(parts[i])])

\* ----------------------------------------------------------------- Capsule
BasePrice(capsule_type) ==
    CASE capsule_type = TYPE_STANDARD -> 1500
      [] capsule_type = TYPE_LUX -> 2500
      [] capsule_type = TYPE_PREMIUM -> 3500
      [] OTHER -> DefaultBasePrice

\* _calculate_price applying the random factor twice
CalculatePriceTwice(capsule_type, jitter) ==
    (BasePrice(capsule_type) * (100 + jitter) * (100 + jitter)) \div 10000

CalculatePrice(capsule_type, jitter) ==
    (BasePrice(capsule_type) * (100 + jitter)) \div 100

CapsuleInit(capsule_type, jitter) ==
    [type |-> capsule_type,
     price_per_night |-> CalculatePrice(capsule_type, jitter),
     is_available |-> TRUE,
     current_booking |-> None]

\* Capsule.book without its availability test
CapsuleBookUnchecked(cap, b) ==
    [err |-> "OK",
     capsule |-> [cap EXCEPT !.is_available = FALSE, !.current_booking = b]]

\* Capsule.book storing the booking before its availability test
CapsuleBookAssignFirst(cap, b) ==
    IF ~cap.is_available
    THEN [err |-> "CapsuleUnavailable",
          capsule |-> [cap EXCEPT !.current_booking = b]]
    ELSE [err |-> "OK",
          capsule |-> [cap EXCEPT !.is_available = FALSE, !.current_booking = b]]

CapsuleBook(cap, b) ==
    IF ~cap.is_available
    THEN [err |-> "CapsuleUnavailable", capsule |-> cap]
    ELSE [err |-> "OK",
          capsule |-> [cap EXCEPT !.is_available = FALSE, !.current_booking = b]]

\* Capsule.release forgetting to clear the booking reference
CapsuleReleaseFlagOnly(cap) == [cap EXCEPT !.is_available = TRUE]

CapsuleRelease(cap) ==
    [cap EXCEPT !.is_available = TRUE, !.current_booking = None]

\* ------------------------------------------------------------------- Guest
\* Guest.__init__ without the duplicate test
GuestInitUnchecked(name, passport, phone, used) ==
    [err |-> "OK", used |-> used \cup {passport},
     guest |-> [name |-> name, passport |-> passport, phone |-> phone,
                bookings |-> <<>>]]

\* Guest.__init__ never recording the passport as used
GuestInitForgetful(name, passport, phone, used) ==
    IF passport \in used
    THEN [err |-> "DuplicatePassport", used |-> used]
    ELSE [err |-> "OK", used |-> used,
          guest |-> [name |-> name, passport |-> passport, phone |-> phone,
                     bookings |-> <<>>]]

GuestInit(name, passport, phone, used) ==
    IF passport \in used
    THEN [err |-> "DuplicatePassport", used |-> used]
    ELSE [err |-> "OK", used |-> used \cup {passport},
          guest |-> [name |-> name, passport |-> passport, phone |-> phone,
                     bookings |-> <<>>]]

GuestAddBooking(guest, b) == [guest EXCEPT !.bookings = Append(@, b)]

\* list.remove: the first occurrence goes
RemoveFirst(s, b) ==
    LET i == CHOOSE k \in 1..Len(s) : s[k] = b /\ \A j \in 1..(k - 1) : s[j] # b
    IN SubSeq(s, 1, i - 1) \o SubSeq(s, i + 1, Len(s))

GuestRemoveBooking(guest, b) ==
    IF \E k \in 1..Len(guest.bookings) : guest.bookings[k] = b
    THEN [guest EXCEPT !.bookings = RemoveFirst(@, b)]
    ELSE guest

\* ----------------------------------------------------------------- Booking
\* Booking._validate_dates without the test for a start in the past
ValidateDatesNoPast(start_date, end_date, now) ==
    IF end_date - start_date > MaxSpan THEN "DurationTooLong" ELSE "OK"

\* Booking._validate_dates with the duration limit off by one
ValidateDatesOffByOne(start_date, end_date, now) ==
    IF start_date < now THEN "DateInPast"
    ELSE IF end_date - start_date > MaxSpan + 1 THEN "DurationTooLong"
    ELSE "OK"

\* Booking._validate_dates refusing the limit itself
ValidateDatesStrict(start_date, end_date, now) ==
    IF start_date < now THEN "DateInPast"
    ELSE IF end_date - start_date >= MaxSpan THEN "DurationTooLong"
    ELSE "OK"

\* Booking._validate_dates testing the duration before the start
ValidateDatesDurationFirst(start_date, end_date, now) ==
    IF end_date - start_date > MaxSpan THEN "DurationTooLong"
    ELSE IF start_date < now THEN "DateInPast"
    ELSE "OK"

ValidateDates(start_date, end_date, now) ==
    IF start_date < now THEN "DateInPast"
    ELSE IF end_date - start_date > MaxSpan THEN "DurationTooLong"
    ELSE "OK"

\* deque(maxlen).append: a full deque drops its oldest entry
HistoryAppend(history, b) ==
    IF Len(history) >= HistoryMaxLen
    THEN Append(Tail(history), b)
    ELSE Append(history, b)

BookingRow(bk) ==
    [guest_id |-> bk.guest, capsule_id |-> bk.capsule,
     start_date |-> bk.start_date, end_date |-> bk.end_date,
     is_paid |-> bk.is_paid]

\* INSERT OR REPLACE INTO bookings
SaveToDb(db, bk) ==
    [k \in DOMAIN db \cup {bk.booking_id} |->
        IF k = bk.booking_id THEN BookingRow(bk) ELSE db[k]]

\* Booking.__init__ on object b; `attached` tells whether the object was
\* handed to a capsule (and so stays referenced after a failure)
BookingInit(b, booking_id, guest_id, capsule_id, guest, cap, history, db, start_date, end_date, now, db_ok) ==
    LET bk == [booking_id |-> booking_id, guest |-> guest_id,
               capsule |-> capsule_id, start_date |-> start_date,
               end_date |-> end_date, is_paid |-> FALSE, created |-> now]
        dates == IF start_date >= end_date THEN "DateRangeInvalid"
                 ELSE ValidateDates(start_date, end_date, now)
        booked == CapsuleBook(cap, b)
    IN IF dates # "OK"
       THEN [err |-> dates, guest |-> guest, capsule |-> cap,
             history |-> history, db |-> db, attached |-> FALSE,
             booking |-> bk]
       ELSE IF booked.err # "OK"
       THEN [err |-> booked.err, guest |-> guest, capsule |-> booked.capsule,
             history |-> history, db |-> db, attached |-> FALSE,
             booking |-> bk]
       ELSE [err |-> IF db_ok THEN "OK" ELSE "StorageError",
             guest |-> GuestAddBooking(guest, b),
             capsule |-> booked.capsule,
             history |-> HistoryAppend(history, b),
             db |-> IF db_ok THEN SaveToDb(db, bk) ELSE db,
             attached |-> TRUE,
             booking |-> bk]

\* Booking.mark_as_paid flipping the flag
BookingMarkAsPaidToggle(bk) ==
    [err |-> "OK", booking |-> [bk EXCEPT !.is_paid = ~@]]

\* Booking.mark_as_paid accepting a second call in silence
BookingMarkAsPaidSilent(bk) ==
    [err |-> "OK", booking |-> [bk EXCEPT !.is_paid = TRUE]]

BookingMarkAsPaid(bk) ==
    IF bk.is_paid
    THEN [err |-> "AlreadyPaid", booking |-> bk]
    ELSE [err |-> "OK", booking |-> [bk EXCEPT !.is_paid = TRUE]]

\* Booking.cancel without the test for a paid booking
BookingCancelUnchecked(b, bk, cap, guest) ==
    [err |-> "OK", capsule |-> CapsuleRelease(cap),
     guest |-> GuestRemoveBooking(guest, b)]

BookingCancel(b, bk, cap, guest) ==
    IF bk.is_paid
    THEN [err |-> "PaymentLocked", capsule |-> cap, guest |-> guest]
    ELSE [err |-> "OK", capsule |-> CapsuleRelease(cap),
          guest |-> GuestRemoveBooking(guest, b)]

\* ------------------------------------------------------------------- Hotel
Init ==
    /\ guests = <<>>
    /\ capsules = <<>>
    /\ bookings = <<>>
    /\ objs = <<>>
    /\ used_passports = {}
    /\ booking_history = <<>>
    /\ next_guest_id = 1
    /\ next_capsule_id = 1
    /\ next_booking_id = 1
    /\ today = 0
    /\ db_bookings = <<>>
    /\ calls = [s \in Sessions |-> NoCall]
    /\ last = [op |-> "init", err |-> "OK"]

\* a failing call that has already advanced the booking counter
RaiseConsumingId(op, err) ==
    /\ last' = [op |-> op, err |-> err]
    /\ next_booking_id' = next_booking_id + 1
    /\ UNCHANGED <<calls, guests, capsules, bookings, objs, used_passports,
                   booking_history, next_guest_id, next_capsule_id,
                   today, db_bookings>>

Raise(op, err) ==
    /\ last' = [op |-> op, err |-> err]
    /\ UNCHANGED domain_vars
    /\ UNCHANGED today

AddCapsule(capsule_type, jitter) ==
    /\ next_capsule_id <= MaxCapsules
    /\ capsules' = (next_capsule_id :> CapsuleInit(capsule_type, jitter)) @@ capsules
    /\ next_capsule_id' = next_capsule_id + 1
    /\ last' = [op |-> "add_capsule", err |-> "OK"]
    /\ UNCHANGED <<calls, guests, bookings, objs, used_passports, booking_history,
                   next_guest_id, next_booking_id, today, db_bookings>>

RegisterGuest(name, passport, phone) ==
    LET r == GuestInit(NormalizeName(name), passport, phone, used_passports)
    IN IF r.err # "OK"
       THEN Raise("register_guest", r.err)
       ELSE /\ next_guest_id <= MaxGuests
            /\ guests' = (next_guest_id :> r.guest) @@ guests
            /\ used_passports' = r.used
            /\ next_guest_id' = next_guest_id + 1
            /\ last' = [op |-> "register_guest", err |-> "OK"]
            /\ UNCHANGED <<calls, capsules, bookings, objs, booking_history,
                           next_capsule_id, next_booking_id, today, db_bookings>>

\* the two lookups of create_booking, made in the other order
FindGuestAndCapsuleSwapped(guest_id, capsule_id) ==
    IF capsule_id \notin DOMAIN capsules THEN "CapsuleNotFound"
    ELSE IF guest_id \notin DOMAIN guests THEN "GuestNotFound"
    ELSE "OK"

\* create_booking without its lookups: the subscript raises KeyError
FindGuestAndCapsuleUnchecked(guest_id, capsule_id) ==
    IF guest_id \notin DOMAIN guests \/ capsule_id \notin DOMAIN capsules
    THEN "KeyError"
    ELSE "OK"

FindGuestAndCapsule(guest_id, capsule_id) ==
    IF guest_id \notin DOMAIN guests THEN "GuestNotFound"
    ELSE IF capsule_id \notin DOMAIN capsules THEN "CapsuleNotFound"
    ELSE "OK"

\* create_booking, while fewer than max_objs Booking objects were attached
CreateBookingUpTo(max_objs, guest_id, capsule_id, start_date, end_date) ==
    IF FindGuestAndCapsule(guest_id, capsule_id) # "OK"
    THEN Raise("create_booking", FindGuestAndCapsule(guest_id, capsule_id))
    ELSE LET b == Len(objs) + 1
             Construct(db_ok) ==
                 BookingInit(b, next_booking_id, guest_id, capsule_id,
                             guests[guest_id], capsules[capsule_id],
                             booking_history, db_bookings,
                             start_date, end_date, today, db_ok)
             r0 == Construct(TRUE)
         IN IF ~r0.attached
            THEN /\ last' = [op |-> "create_booking", err |-> r0.err]
                 /\ capsules' = [capsules EXCEPT ![capsule_id] = r0.capsule]
                 /\ UNCHANGED <<calls, guests, bookings, objs, used_passports,
                                booking_history, next_guest_id, next_capsule_id,
                                next_booking_id, today, db_bookings>>
            ELSE \E db_ok \in BOOLEAN : LET r == Construct(db_ok) IN
                 /\ b <= max_objs
                 /\ last' = [op |-> "create_booking", err |-> r.err]
                 /\ objs' = Append(objs, r.booking)
                 /\ guests' = [guests EXCEPT ![guest_id] = r.guest]
                 /\ capsules' = [capsules EXCEPT ![capsule_id] = r.capsule]
                 /\ booking_history' = r.history
                 /\ db_bookings' = r.db
                 /\ IF r.err = "OK"
                    THEN /\ bookings' = (next_booking_id :> b) @@ bookings
                         /\ next_booking_id' = next_booking_id + 1
                    ELSE UNCHANGED <<bookings, next_booking_id>>
                 /\ UNCHANGED <<calls, used_passports, next_guest_id,
                                next_capsule_id, today>>

CreateBooking(guest_id, capsule_id, start_date, end_date) ==
    CreateBookingUpTo(MaxObjs, guest_id, capsule_id, start_date, end_date)

\* check_out of a booking that is in the ledger: cancel, then del
CheckOutFound(booking_id) ==
    LET b == bookings[booking_id]
        bk == objs[b]
        r == BookingCancel(b, bk, capsules[bk.capsule], guests[bk.guest])
    IN IF r.err # "OK"
       THEN Raise("check_out", r.err)
       ELSE /\ capsules' = [capsules EXCEPT ![bk.capsule] = r.capsule]
            /\ guests' = [guests EXCEPT ![bk.guest] = r.guest]
            /\ bookings' = [k \in DOMAIN bookings \ {booking_id} |-> bookings[k]]
            /\ last' = [op |-> "check_out", err |-> "OK"]
            /\ UNCHANGED <<calls, objs, used_passports, booking_history,
                           next_guest_id, next_capsule_id,
                           next_booking_id, today, db_bookings>>

\* check_out treating an unknown id as nothing to do (dict.pop with a default)
CheckOutSilent(booking_id) ==
    IF booking_id \notin DOMAIN bookings
    THEN Raise("check_out", "OK")
    ELSE CheckOutFound(booking_id)

CheckOut(booking_id) ==
    IF booking_id \notin DOMAIN bookings
    THEN Raise("check_out", "BookingNotFound")
    ELSE CheckOutFound(booking_id)

MarkAsPaid(booking_id) ==
    /\ booking_id \in DOMAIN bookings
    /\ LET b == bookings[booking_id]
           r == BookingMarkAsPaid(objs[b])
       IN IF r.err # "OK"
          THEN Raise("mark_as_paid", r.err)
          ELSE /\ objs' = [objs EXCEPT ![b] = r.booking]
               /\ last' = [op |-> "mark_as_paid", err |-> "OK"]
               /\ UNCHANGED <<calls, guests, capsules, bookings, used_passports,
                              booking_history, next_guest_id, next_capsule_id,
                              next_booking_id, today, db_bookings>>

\* midnight passes
Tick ==
    /\ today < MaxDay
    /\ today' = today + 1
    /\ last' = [op |-> "tick", err |-> "OK"]
    /\ UNCHANGED domain_vars

Next ==
    \/ \E t \in CapsuleTypeInputs, j \in JitterPct : AddCapsule(t, j)
    \/ \E n \in RawNames, p \in Passports, ph \in Phones : RegisterGuest(n, p, ph)
    \/ \E g \in GuestIds, c \in CapsuleIds, d \in StartOffsets, s \in SpanChoices :
          CreateBooking(g, c, today + d, today + d + s)
    \/ \E id \in BookingIds : CheckOut(id)
    \/ \E id \in BookingIds : MarkAsPaid(id)
    \/ Tick

Spec == Init /\ [][Next]_vars

\* ------------------------------------------------------- desktop front-end
\* MainWindow.mark_as_paid on the selected row of the bookings table (None:
\* no row selected).  The table is a snapshot of the ledger taken by
\* load_bookings, so a row may carry any booking id that was ever assigned.
\* The handler raises nothing itself: `err` is what its message box tells
\* the user, NoReport when it returns without one, StorageError when
\* save_to_db raises out of it.
UiMarkAsPaid(selected) ==
    IF selected = None
    THEN Raise("ui_mark_as_paid", "NothingSelected")
    ELSE IF selected \notin DOMAIN bookings
    THEN Raise("ui_mark_as_paid", "NoReport")
    ELSE IF objs[bookings[selected]].is_paid
    THEN Raise("ui_mark_as_paid", "AlreadyPaid")
    ELSE \E db_ok \in BOOLEAN :
         LET b == bookings[selected]
             r == BookingMarkAsPaid(objs[b])
         IN /\ last' = [op |-> "ui_mark_as_paid",
                        err |-> IF db_ok THEN "OK" ELSE "StorageError"]
            /\ objs' = [objs EXCEPT ![b] = r.booking]
            /\ db_bookings' = IF db_ok THEN SaveToDb(db_bookings, r.booking)
                                       ELSE db_bookings
            /\ UNCHANGED <<calls, guests, capsules, bookings, used_passports,
                           booking_history, next_guest_id, next_capsule_id,
                           next_booking_id, today>>

\* the cancel button releasing the capsule and the guest's list but leaving
\* the booking in the ledger
UiCancelBookingNoDel(selected, confirmed) ==
    IF selected = None
    THEN Raise("ui_cancel_booking", "NothingSelected")
    ELSE IF selected \notin DOMAIN bookings
    THEN Raise("ui_cancel_booking", "NoReport")
    ELSE IF objs[bookings[selected]].is_paid
    THEN Raise("ui_cancel_booking", "PaymentLocked")
    ELSE IF ~confirmed
    THEN Raise("ui_cancel_booking", "Declined")
    ELSE LET b == bookings[selected]
             bk == objs[b]
             r == BookingCancel(b, bk, capsules[bk.capsule], guests[bk.guest])
         IN /\ capsules' = [capsules EXCEPT ![bk.capsule] = r.capsule]
            /\ guests' = [guests EXCEPT ![bk.guest] = r.guest]
            /\ last' = [op |-> "ui_cancel_booking", err |-> "OK"]
            /\ UNCHANGED <<calls, bookings, objs, used_passports,
                           booking_history, next_guest_id, next_capsule_id,
                           next_booking_id, today, db_bookings>>

\* MainWindow.cancel_booking on the selected row of the bookings table, the
\* question box answered Yes (confirmed) or No.  `err` is what the message
\* box tells: NothingSelected, PaymentLocked (the warning for a paid
\* booking), Declined, OK; NoReport when the handler returns without one.
UiCancelBooking(selected, confirmed) ==
    IF selected = None
    THEN Raise("ui_cancel_booking", "NothingSelected")
    ELSE IF selected \notin DOMAIN bookings
    THEN Raise("ui_cancel_booking", "NoReport")
    ELSE IF objs[bookings[selected]].is_paid
    THEN Raise("ui_cancel_booking", "PaymentLocked")
    ELSE IF ~confirmed
    THEN Raise("ui_cancel_booking", "Declined")
    ELSE LET b == bookings[selected]
             bk == objs[b]
             r == BookingCancel(b, bk, capsules[bk.capsule], guests[bk.guest])
         IN IF r.err # "OK"
            THEN Raise("ui_cancel_booking", r.err)
            ELSE /\ capsules' = [capsules EXCEPT ![bk.capsule] = r.capsule]
                 /\ guests' = [guests EXCEPT ![bk.guest] = r.guest]
                 /\ bookings' = [k \in DOMAIN bookings \ {selected} |-> bookings[k]]
                 /\ last' = [op |-> "ui_cancel_booking", err |-> "OK"]
                 /\ UNCHANGED <<calls, objs, used_passports, booking_history,
                                next_guest_id, next_capsule_id,
                                next_booking_id, today, db_bookings>>

NextUi ==
    \/ \E t \in CapsuleTypeInputs, j \in JitterPct : AddCapsule(t, j)
    \/ \E n \in RawNames, p \in Passports, ph \in Phones : RegisterGuest(n, p, ph)
    \/ \E g \in GuestIds, c \in CapsuleIds :
          CreateBooking(g, c, today, today + MaxSpan)
    \/ \E id \in BookingIds : CheckOut(id)
    \/ \E sel \in {None} \cup 1..(next_booking_id - 1) : UiMarkAsPaid(sel)
    \/ \E sel \in {None} \cup 1..(next_booking_id - 1), yes \in BOOLEAN :
          UiCancelBooking(sel, yes)
    \/ \E id \in BookingIds : MarkAsPaid(id)
    \/ Tick

SpecUi == Init /\ [][NextUi]_vars

\* ----------------------------------------------------------------- queries
\* Python's s[start:] on a list
SliceFrom(s, start) ==
    LET n == Len(s)
        i == IF start < 0
             THEN (IF start + n < 0 THEN 0 ELSE start + n)
             ELSE (IF start > n THEN n ELSE start)
    IN SubSeq(s, i + 1, n)

\* Booking.get_recent_bookings taking its slice from the front
RecentBookingsOldest(history, count) ==
    SubSeq(history, 1, IF count > Len(history) THEN Len(history) ELSE count)

\* list(cls._booking_history)[-count:]
RecentBookings(history, count) == SliceFrom(history, 0 - count)

GetRecentBookings(count) ==
    /\ last' = [op |-> "get_recent_bookings", err |-> "OK",
                result |-> RecentBookings(booking_history, count)]
    /\ UNCHANGED domain_vars
    /\ UNCHANGED today

\* the test of get_available_capsules with both ends of the stay left out
CapsuleListedOpenInterval(cap, date) ==
    \/ cap.is_available
    \/ /\ cap.current_booking # None
       /\ ~( /\ objs[cap.current_booking].start_date < date
             /\ date < objs[cap.current_booking].end_date )

\* the test get_available_capsules makes on one capsule
CapsuleListed(cap, date) ==
    \/ cap.is_available
    \/ /\ cap.current_booking # None
       /\ ~( /\ objs[cap.current_booking].start_date <= date
             /\ date <= objs[cap.current_booking].end_date )

\* the keys of a dict filled under consecutive ids, in insertion order
KeysInOrder(d, next_id) ==
    SelectSeq([i \in 1..(next_id - 1) |-> i], LAMBDA k : k \in DOMAIN d)

\* the list get_available_capsules builds, as capsule ids
AvailableCapsules(date) ==
    SelectSeq(KeysInOrder(capsules, next_capsule_id),
              LAMBDA c : CapsuleListed(capsules[c], date))

\* get_available_capsules(date); the default date is today
GetAvailableCapsules(date) ==
    /\ last' = [op |-> "get_available_capsules", err |-> "OK",
                result |-> AvailableCapsules(date)]
    /\ UNCHANGED domain_vars
    /\ UNCHANGED today

\* calculate_total counting the day of departure as a night
CalculateTotalInclusive(bk) ==
    (bk.end_date - bk.start_date + 1) * capsules[bk.capsule].price_per_night

CalculateTotal(bk) ==
    (bk.end_date - bk.start_date) * capsules[bk.capsule].price_per_night

\* stats[name] = total in place of +=
StatsAddOverwriting(stats, name, total) ==
    [n \in DOMAIN stats \cup {name} |-> IF n = name THEN total ELSE stats[n]]

\* defaultdict(float): stats[name] += total
StatsAdd(stats, name, total) ==
    [n \in DOMAIN stats \cup {name} |->
        (IF n \in DOMAIN stats THEN stats[n] ELSE 0)
        + (IF n = name THEN total ELSE 0)]

RECURSIVE StatsOver(_, _)
StatsOver(ids, stats) ==
    IF ids = <<>> THEN stats
    ELSE LET bk == objs[bookings[Head(ids)]]
         IN StatsOver(Tail(ids),
                      StatsAdd(stats, guests[bk.guest].name, CalculateTotal(bk)))

GuestStatistics == StatsOver(KeysInOrder(bookings, next_booking_id), <<>>)

GetGuestStatistics ==
    /\ last' = [op |-> "get_guest_statistics", err |-> "OK",
                result |-> GuestStatistics]
    /\ UNCHANGED domain_vars
    /\ UNCHANGED today

\* the Hotel with its queries; every guest shows a new passport and every
\* stay is MaxSpan days from today
NextQuery ==
    \/ \E t \in QueryCapsuleTypes, j \in JitterPct : AddCapsule(t, j)
    \/ \E n \in QueryNames, ph \in Phones : RegisterGuest(n, next_guest_id, ph)
    \/ \E g \in GuestIds, c \in CapsuleIds :
          CreateBookingUpTo(MaxQueryObjs, g, c, today, today + MaxSpan)
    \/ \E id \in 1..MaxQueryObjs : CheckOut(id)
    \/ \E count \in RecentCounts : GetRecentBookings(count)
    \/ \E k \in QueryOffsets : GetAvailableCapsules(today + k)
    \/ GetGuestStatistics

SpecQuery == Init /\ [][NextQuery]_vars

\* ---------------------------------------------------------------- chat bot
\* The handlers of the Telegram bot that call an operation of the Hotel.  A
\* handler that calls the Hotel leaves in `last` the operation and how it
\* ended; a handler that answers before it calls leaves its own name and
\* what it found.  HandlerReply tells what the chat is sent.

\* the exceptions of the HotelBaseError family, as the Hotel's operations
\* raise them
DomainErrors ==
    {"GuestNotFound", "CapsuleNotFound", "DateRangeInvalid", "DateInPast",
     "DurationTooLong", "CapsuleUnavailable", "BookingNotFound",
     "PaymentLocked", "AlreadyPaid", "DuplicatePassport"}

\* `except ValueError`: int() of a text that is no number raises one;
\* HotelBaseError derives from Exception, and sqlite3.Error does too
IsValueError(err) == err = "NotANumber"

\* what the handler sends to the chat: "Success", "Error" (a message that
\* tells the failure), or "Unhandled" when the exception leaves the handler
\* and nothing is sent
HandlerReply(l) ==
    IF l.err = "OK" THEN "Success"
    ELSE IF l.op = "register_guest" THEN "Error"
    ELSE IF l.op \in {"create_booking", "check_out"}
    THEN (IF IsValueError(l.err) THEN "Error" ELSE "Unhandled")
    ELSE "Error"

\* process_guest_phone: the last step of /register
ProcessGuestPhone(name, passport, phone) ==
    RegisterGuest(name, passport, phone)

\* process_booking_end_date: the last step of /book.  The steps before it
\* let through only a guest id and a capsule id of the hotel and a start
\* that was not in the past on the day it was typed (day 0 at the earliest).
ProcessBookingEndDate(guest_id, capsule_id, start_date, end_date) ==
    /\ guest_id \in DOMAIN guests
    /\ capsule_id \in DOMAIN capsules
    /\ start_date >= 0
    /\ IF end_date <= start_date
       THEN Raise("process_booking_end_date", "EndNotAfterStart")
       ELSE IF end_date - start_date > MaxSpan
       THEN Raise("process_booking_end_date", "TooLong")
       ELSE CreateBooking(guest_id, capsule_id, start_date, end_date)

\* process_check_out: the last step of /checkout, which checkout_start
\* begins only when the ledger holds a booking
ProcessCheckOut(is_number, booking_id) ==
    /\ next_booking_id > 1
    /\ IF ~is_number
       THEN Raise("process_check_out", "NotANumber")
       ELSE CheckOut(booking_id)

\* ids of the guest and of the booking that /demo_vip makes up
DemoId == 999
DemoNights == 3

\* /demo_vip: a VIPGuest and a Booking for the first capsule of the hotel
\* are constructed.  Booking.__init__ books the capsule and then calls
\* add_booking, which a VIPGuest does not have; `except Exception` answers
\* with the error.
DemoVip ==
    IF DOMAIN capsules = {}
    THEN Raise("demo_vip", "StopIteration")
    ELSE LET c == KeysInOrder(capsules, next_capsule_id)[1]
             b == Len(objs) + 1
             bk == [booking_id |-> DemoId, guest |-> DemoId, capsule |-> c,
                    start_date |-> today, end_date |-> today + DemoNights,
                    is_paid |-> FALSE, created |-> today]
             dates == IF bk.start_date >= bk.end_date THEN "DateRangeInvalid"
                      ELSE ValidateDates(bk.start_date, bk.end_date, today)
             booked == CapsuleBook(capsules[c], b)
         IN IF dates # "OK"
            THEN Raise("demo_vip", dates)
            ELSE IF booked.err # "OK"
            THEN Raise("demo_vip", booked.err)
            ELSE /\ b <= MaxObjs
                 /\ objs' = Append(objs, bk)
                 /\ capsules' = [capsules EXCEPT ![c] = booked.capsule]
                 /\ last' = [op |-> "demo_vip", err |-> "AttributeError"]
                 /\ UNCHANGED <<calls, guests, bookings, used_passports,
                                booking_history, next_guest_id,
                                next_capsule_id, next_booking_id, today,
                                db_bookings>>

\* the Hotel under the handlers of the bot; capsules are added and bookings
\* paid by other callers of the Hotel, for the bot has no command for either
NextBot ==
    \/ \E t \in CapsuleTypeInputs, j \in JitterPct : AddCapsule(t, j)
    \/ \E n \in RawNames, p \in Passports, ph \in Phones :
          ProcessGuestPhone(n, p, ph)
    \/ \E g \in GuestIds, c \in CapsuleIds, d \in StartOffsets, s \in SpanChoices :
          ProcessBookingEndDate(g, c, today + d, today + d + s)
    \/ \E n \in BOOLEAN, id \in BookingIds : ProcessCheckOut(n, id)
    \/ \E id \in BookingIds : MarkAsPaid(id)
    \/ DemoVip
    \/ Tick

SpecBot == Init /\ [][NextBot]_vars

\* ----------------------------------------------------------- chat sessions
\* The bot runs the handlers of different chats in worker threads, and no
\* lock guards the Hotel: the statements of two create_booking calls
\* interleave.  A session's call goes through the statements of
\* Hotel.create_booking, Booking.__init__ and Capsule.book one at a time;
\* calls[s] holds its arguments, the Booking object it constructed (b) and
\* the statement it is at (pc).
AllIdle == \A s \in Sessions : calls[s].pc = "idle"

\* the call returns or raises: the session is in no call again
EndCall(s, err) ==
    /\ calls' = [calls EXCEPT ![s] = NoCall]
    /\ last' = [op |-> "create_booking", err |-> err]

GoTo(s, pc) ==
    /\ calls' = [calls EXCEPT ![s].pc = pc]
    /\ UNCHANGED last

\* create_booking is called; the two lookups
StepFind(s, guest_id, capsule_id, start_date, end_date) ==
    /\ calls[s].pc = "idle"
    /\ IF FindGuestAndCapsule(guest_id, capsule_id) # "OK"
       THEN EndCall(s, FindGuestAndCapsule(guest_id, capsule_id))
       ELSE /\ calls' = [calls EXCEPT ![s] =
                           [pc |-> "construct", guest_id |-> guest_id,
                            capsule_id |-> capsule_id,
                            start_date |-> start_date,
                            end_date |-> end_date, b |-> 0]]
            /\ UNCHANGED last
    /\ UNCHANGED <<guests, capsules, bookings, objs, used_passports,
                   booking_history, next_guest_id, next_capsule_id,
                   next_booking_id, today, db_bookings>>

\* Booking(self._next_booking_id, ...): the counter is read, the dates are
\* tested and the fields of the new object are assigned
StepConstruct(s) ==
    /\ calls[s].pc = "construct"
    /\ LET c == calls[s]
           dates == IF c.start_date >= c.end_date THEN "DateRangeInvalid"
                    ELSE ValidateDates(c.start_date, c.end_date, today)
       IN IF dates # "OK"
          THEN EndCall(s, dates) /\ UNCHANGED objs
          ELSE /\ Len(objs) < MaxObjs
               /\ objs' = Append(objs,
                     [booking_id |-> next_booking_id, guest |-> c.guest_id,
                      capsule |-> c.capsule_id, start_date |-> c.start_date,
                      end_date |-> c.end_date, is_paid |-> FALSE,
                      created |-> today])
               /\ calls' = [calls EXCEPT ![s].pc = "book_test",
                                         ![s].b = Len(objs) + 1]
               /\ UNCHANGED last
    /\ UNCHANGED <<guests, capsules, bookings, used_passports,
                   booking_history, next_guest_id, next_capsule_id,
                   next_booking_id, today, db_bookings>>

\* Capsule.book with its test and its first assignment made in one step, as
\* under a lock: a capsule that another call is about to take is refused
StepBookTestLocked(s) ==
    /\ calls[s].pc = "book_test"
    /\ IF \/ ~capsules[calls[s].capsule_id].is_available
          \/ \E o \in Sessions \ {s} :
                /\ calls[o].pc = "book_flag"
                /\ calls[o].capsule_id = calls[s].capsule_id
       THEN EndCall(s, "CapsuleUnavailable")
       ELSE GoTo(s, "book_flag")
    /\ UNCHANGED <<guests, capsules, bookings, objs, used_passports,
                   booking_history, next_guest_id, next_capsule_id,
                   next_booking_id, today, db_bookings>>

\* Capsule.book: `if not self._is_available: raise`
StepBookTest(s) ==
    /\ calls[s].pc = "book_test"
    /\ IF ~capsules[calls[s].capsule_id].is_available
       THEN EndCall(s, "CapsuleUnavailable")
       ELSE GoTo(s, "book_flag")
    /\ UNCHANGED <<guests, capsules, bookings, objs, used_passports,
                   booking_history, next_guest_id, next_capsule_id,
                   next_booking_id, today, db_bookings>>

\* Capsule.book: `self._is_available = False`
StepBookFlag(s) ==
    /\ calls[s].pc = "book_flag"
    /\ capsules' = [capsules EXCEPT ![calls[s].capsule_id].is_available = FALSE]
    /\ GoTo(s, "book_ref")
    /\ UNCHANGED <<guests, bookings, objs, used_passports,
                   booking_history, next_guest_id, next_capsule_id,
                   next_booking_id, today, db_bookings>>

\* Capsule.book: `self._current_booking = booking`
StepBookRef(s) ==
    /\ calls[s].pc = "book_ref"
    /\ capsules' = [capsules EXCEPT
                       ![calls[s].capsule_id].current_booking = calls[s].b]
    /\ GoTo(s, "add_booking")
    /\ UNCHANGED <<guests, bookings, objs, used_passports,
                   booking_history, next_guest_id, next_capsule_id,
                   next_booking_id, today, db_bookings>>

\* `self.guest.add_booking(self)`
StepAddBooking(s) ==
    /\ calls[s].pc = "add_booking"
    /\ guests' = [guests EXCEPT ![calls[s].guest_id] =
                     GuestAddBooking(@, calls[s].b)]
    /\ GoTo(s, "history")
    /\ UNCHANGED <<capsules, bookings, objs, used_passports,
                   booking_history, next_guest_id, next_capsule_id,
                   next_booking_id, today, db_bookings>>

\* `Booking._booking_history.append(self)`
StepHistory(s) ==
    /\ calls[s].pc = "history"
    /\ booking_history' = HistoryAppend(booking_history, calls[s].b)
    /\ GoTo(s, "save")
    /\ UNCHANGED <<guests, capsules, bookings, objs, used_passports,
                   next_guest_id, next_capsule_id,
                   next_booking_id, today, db_bookings>>

\* `self.save_to_db()`, which may raise
StepSave(s) ==
    /\ calls[s].pc = "save"
    /\ \E db_ok \in BOOLEAN :
          IF db_ok
          THEN /\ db_bookings' = SaveToDb(db_bookings, objs[calls[s].b])
               /\ GoTo(s, "store")
          ELSE /\ UNCHANGED db_bookings
               /\ EndCall(s, "StorageError")
    /\ UNCHANGED <<guests, capsules, bookings, objs, used_passports,
                   booking_history, next_guest_id, next_capsule_id,
                   next_booking_id, today>>

\* `self.bookings[self._next_booking_id] = booking`: the counter is read
\* again
StepStore(s) ==
    /\ calls[s].pc = "store"
    /\ bookings' = [k \in DOMAIN bookings \cup {next_booking_id} |->
                       IF k = next_booking_id THEN calls[s].b ELSE bookings[k]]
    /\ GoTo(s, "incr")
    /\ UNCHANGED <<guests, capsules, objs, used_passports,
                   booking_history, next_guest_id, next_capsule_id,
                   next_booking_id, today, db_bookings>>

\* `self._next_booking_id += 1`, and the call returns
StepIncr(s) ==
    /\ calls[s].pc = "incr"
    /\ next_booking_id' = next_booking_id + 1
    /\ EndCall(s, "OK")
    /\ UNCHANGED <<guests, capsules, bookings, objs, used_passports,
                   booking_history, next_guest_id, next_capsule_id,
                   today, db_bookings>>

\* the Hotel under the create_booking calls of the chat sessions, statement
\* by statement; capsules are added and guests registered while no call is
\* in flight, every guest with a new passport
NextSessions ==
    \/ \E t \in CapsuleTypeInputs, j \in JitterPct : AllIdle /\ AddCapsule(t, j)
    \/ \E n \in RawNames, ph \in Phones :
          AllIdle /\ RegisterGuest(n, next_guest_id, ph)
    \/ \E s \in Sessions, g \in GuestIds, c \in CapsuleIds :
          StepFind(s, g, c, today, today + MaxSpan)
    \/ \E s \in Sessions : StepConstruct(s)
    \/ \E s \in Sessions : StepBookTest(s)
    \/ \E s \in Sessions : StepBookFlag(s)
    \/ \E s \in Sessions : StepBookRef(s)
    \/ \E s \in Sessions : StepAddBooking(s)
    \/ \E s \in Sessions : StepHistory(s)
    \/ \E s \in Sessions : StepSave(s)
    \/ \E s \in Sessions : StepStore(s)
    \/ \E s \in Sessions : StepIncr(s)

SpecSessions == Init /\ [][NextSessions]_vars

\* ----------------------------------------------------------------- restart
\* booking rows that storage may hold when the process is stopped
MaxRows == 2
RowIds == 1..(MaxRows + MaxObjs)

\* the tables guests and capsules: init_db creates them empty, and the only
\* statements that insert into them, Guest.save_to_db and
\* Capsule.save_to_db, are called from nowhere
db_guests == <<>>
db_capsules == <<>>

MaxOf(S) == CHOOSE x \in S : \A y \in S : y <= x

\* the counter resumed at the greatest stored id itself
LoadCounterMax(table) ==
    IF DOMAIN table = {} THEN 1 ELSE MaxOf(DOMAIN table)

\* SELECT MAX(id), then `max_id + 1 if max_id else 1`
LoadCounter(table) ==
    IF DOMAIN table = {} THEN 1 ELSE MaxOf(DOMAIN table) + 1

LoadGuests ==
    [id \in DOMAIN db_guests |->
        [name |-> db_guests[id].name, passport |-> db_guests[id].passport,
         phone |-> db_guests[id].phone, bookings |-> <<>>]]

LoadCapsules ==
    [id \in DOMAIN db_capsules |->
        [type |-> db_capsules[id].type,
         price_per_night |-> db_capsules[id].price_per_night,
         is_available |-> db_capsules[id].is_available,
         current_booking |-> None]]

\* the loop of _load_from_db over the rows of the table bookings: a row
\* whose guest or capsule was not loaded is skipped; the others go through
\* Booking.__init__, whose exception ends the loading
RECURSIVE LoadBookings(_, _)
LoadBookings(rows, acc) ==
    IF rows = <<>> \/ acc.err # "OK" THEN acc
    ELSE LET id == Head(rows)
             row == acc.db[id]
         IN IF ~(row.guest_id \in DOMAIN acc.guests
                    /\ row.capsule_id \in DOMAIN acc.capsules)
            THEN LoadBookings(Tail(rows), acc)
            ELSE LET b == Len(acc.objs) + 1
                     r == BookingInit(b, id, row.guest_id, row.capsule_id,
                                      acc.guests[row.guest_id],
                                      acc.capsules[row.capsule_id],
                                      acc.history, acc.db,
                                      row.start_date, row.end_date, today, TRUE)
                 IN IF r.err # "OK"
                    THEN [acc EXCEPT !.err = r.err]
                    ELSE LoadBookings(Tail(rows),
                           [err |-> "OK",
                            guests |-> [acc.guests EXCEPT ![row.guest_id] = r.guest],
                            capsules |-> [acc.capsules EXCEPT ![row.capsule_id] = r.capsule],
                            bookings |-> (id :> b) @@ acc.bookings,
                            objs |-> Append(acc.objs,
                                        [r.booking EXCEPT !.is_paid = row.is_paid]),
                            history |-> r.history,
                            db |-> r.db])

\* the process stops and a new one builds its Hotel: Hotel.__init__ with
\* _load_from_db, the class attributes Guest._used_passports and
\* Booking._booking_history empty again
Restart ==
    /\ Cardinality(DOMAIN db_bookings) <= MaxRows
    /\ LET loaded == LoadBookings(
                        KeysInOrder(db_bookings, MaxRows + MaxObjs + 1),
                        [err |-> "OK", guests |-> LoadGuests,
                         capsules |-> LoadCapsules, bookings |-> <<>>,
                         objs |-> <<>>, history |-> <<>>, db |-> db_bookings])
       IN /\ guests' = loaded.guests
          /\ capsules' = loaded.capsules
          /\ bookings' = loaded.bookings
          /\ objs' = loaded.objs
          /\ booking_history' = loaded.history
          /\ db_bookings' = loaded.db
          /\ used_passports' = {loaded.guests[g].passport : g \in DOMAIN loaded.guests}
          /\ next_guest_id' = LoadCounter(db_guests)
          /\ next_capsule_id' = LoadCounter(db_capsules)
          /\ next_booking_id' = LoadCounter(db_bookings)
          /\ last' = [op |-> "restart", err |-> loaded.err]
          /\ UNCHANGED <<today, calls>>

\* the Hotel over several runs of the process; every guest shows a new
\* passport
NextRestart ==
    \/ \E t \in CapsuleTypeInputs, j \in JitterPct : AddCapsule(t, j)
    \/ \E n \in RawNames, ph \in Phones : RegisterGuest(n, next_guest_id, ph)
    \/ \E g \in GuestIds, c \in CapsuleIds :
          CreateBooking(g, c, today, today + MaxSpan)
    \/ \E id \in RowIds : CheckOut(id)
    \/ Restart

SpecRestart == Init /\ [][NextRestart]_vars

\* ------------------------------------------------------------------ prices
\* a type name that is none of the three TYPE_ constants
TYPE_UNKNOWN == "Dormitory"
PriceCapsuleTypes == {TYPE_STANDARD, TYPE_LUX, TYPE_PREMIUM, TYPE_UNKNOWN}
\* random.uniform(-0.1, 0.1) in percent: both ends
PriceJitters == {-10, 10}
PriceSpans == {3, MaxSpan}

\* Booking.calculate_total on a booking of the ledger
GetTotal(booking_id) ==
    /\ booking_id \in DOMAIN bookings
    /\ last' = [op |-> "calculate_total", err |-> "OK",
                result |-> CalculateTotal(objs[bookings[booking_id]])]
    /\ UNCHANGED domain_vars
    /\ UNCHANGED today

\* the Hotel with capsules of every type and price, one guest, and stays of
\* three nights and of thirty
NextPrice ==
    \/ \E t \in PriceCapsuleTypes, j \in PriceJitters : AddCapsule(t, j)
    \/ \E n \in RawNames, ph \in Phones :
          next_guest_id = 1 /\ RegisterGuest(n, next_guest_id, ph)
    \/ \E g \in GuestIds, c \in CapsuleIds, s \in PriceSpans :
          CreateBooking(g, c, today, today + s)
    \/ \E id \in BookingIds : CheckOut(id)
    \/ \E id \in BookingIds : MarkAsPaid(id)
    \/ \E id \in BookingIds : GetTotal(id)

SpecPrice == Init /\ [][NextPrice]_vars

\* the Hotel under create_booking with every combination of arguments; every
\* guest shows a new passport
NextOrder ==
    \/ \E t \in CapsuleTypeInputs, j \in JitterPct : AddCapsule(t, j)
    \/ \E n \in RawNames, ph \in Phones : RegisterGuest(n, next_guest_id, ph)
    \/ \E g \in GuestIds, c \in CapsuleIds, d \in StartOffsets, s \in SpanChoices :
          CreateBooking(g, c, today + d, today + d + s)
    \/ \E id \in BookingIds : CheckOut(id)

SpecOrder == Init /\ [][NextOrder]_vars

\* ================================================================== claims
LedgerHas(ledger, b) == \E id \in DOMAIN ledger : ledger[id] = b
InLedger(b) == LedgerHas(bookings, b)
InList(s, b) == \E k \in 1..Len(s) : s[k] = b
ValidRange(st, en, now) == st < en /\ st >= now /\ en - st <= MaxSpan

\* C1: after any sequence of register_guest, add_capsule, create_booking,
\* mark_as_paid and check_out calls, no two bookings of the ledger occupy the
\* same capsule.
C1_OneBookingPerCapsule ==
    \A i, j \in DOMAIN bookings :
        i # j => objs[bookings[i]].capsule # objs[bookings[j]].capsule

\* two bookings in the ledger, one of them on a capsule that an earlier,
\* checked-out booking had occupied
C1_Witness ==
    \E i, j \in DOMAIN bookings :
        /\ i # j
        /\ \E b \in 1..Len(objs) :
              ~InLedger(b) /\ objs[b].capsule = objs[bookings[i]].capsule

\* C2: create_booking with an existing guest, valid dates and a capsule that
\* is occupied fails with CapsuleUnavailable and leaves every capsule, every
\* guest's booking list, the ledger, the history buffer and the next booking
\* id as they were.
C2_OccupiedCapsuleRejected ==
    [][last'.op = "create_booking" =>
         \A d \in StartOffsets, s \in SpanChoices :
            ValidRange(today + d, today + d + s, today) =>
               \A c \in DOMAIN capsules, g \in DOMAIN guests :
                  ( /\ ~capsules[c].is_available
                    /\ CreateBooking(g, c, today + d, today + d + s) )
                  => ( /\ last'.err = "CapsuleUnavailable"
                       /\ capsules' = capsules
                       /\ guests' = guests
                       /\ bookings' = bookings
                       /\ booking_history' = booking_history
                       /\ next_booking_id' = next_booking_id )]_vars

C2_Witness ==
    /\ last = [op |-> "create_booking", err |-> "CapsuleUnavailable"]
    /\ \E c \in DOMAIN capsules : capsules[c].current_booking # None

\* C3: the passports of the registered guests are pairwise distinct, and each
\* is in the used-passport set.
C3_PassportsDistinct ==
    /\ \A g1, g2 \in DOMAIN guests :
          g1 # g2 => guests[g1].passport # guests[g2].passport
    /\ \A g \in DOMAIN guests : guests[g].passport \in used_passports

C3_Witness ==
    /\ Cardinality(DOMAIN guests) >= 2
    /\ last = [op |-> "register_guest", err |-> "DuplicatePassport"]

\* C4: register_guest with the passport of an earlier successful registration
\* fails with DuplicatePassport and leaves the guests, the used-passport set
\* and the next guest id as they were.
C4_DuplicatePassportRejected ==
    [][\A n \in RawNames, p \in Passports, ph \in Phones :
          ( /\ last'.op = "register_guest"
            /\ \E g \in DOMAIN guests : guests[g].passport = p
            /\ RegisterGuest(n, p, ph) )
          => ( /\ last'.err = "DuplicatePassport"
               /\ guests' = guests
               /\ used_passports' = used_passports
               /\ next_guest_id' = next_guest_id )]_vars

C4_Witness ==
    /\ last = [op |-> "register_guest", err |-> "DuplicatePassport"]
    /\ next_guest_id = 2
    /\ used_passports = {guests[1].passport}

\* C5: every booking of the ledger ends after it starts, starts on or after
\* the day it was created and spans at most 30 days; and create_booking
\* accepts a span of exactly 30 days (the call passes validation and, when
\* the row is stored, the booking enters the ledger with that span).
C5_LedgerDatesValid ==
    /\ [](\A id \in DOMAIN bookings :
             LET bk == objs[bookings[id]]
             IN /\ bk.end_date > bk.start_date
                /\ bk.start_date >= bk.created
                /\ bk.end_date - bk.start_date <= MaxSpan)
    /\ [][last'.op = "create_booking" =>
            \A d \in StartOffsets :
               d >= 0 =>
                  \A c \in DOMAIN capsules, g \in DOMAIN guests :
                     ( /\ capsules[c].is_available
                       /\ CreateBooking(g, c, today + d, today + d + MaxSpan) )
                     => ( /\ last'.err \in {"OK", "StorageError"}
                          /\ last'.err = "OK" =>
                               /\ next_booking_id \in DOMAIN bookings'
                               /\ LET bk == objs'[bookings'[next_booking_id]]
                                  IN /\ bk.start_date = today + d
                                     /\ bk.end_date = today + d + MaxSpan
                                     /\ bk.created = today )]_vars

\* a 30-day booking made on day 0 is still in the ledger on day 1
C5_Witness ==
    \E id \in DOMAIN bookings :
        LET bk == objs[bookings[id]]
        IN /\ bk.end_date - bk.start_date = MaxSpan
           /\ bk.created < today

\* C6: for an existing guest and capsule, create_booking with end <= start
\* fails with DateRangeInvalid, else with start before today fails with
\* DateInPast, else with a span over 30 days fails with DurationTooLong; in
\* each case the ledger, every capsule, every guest's booking list, the
\* history buffer and the next booking id are as they were.
C6_InvalidDatesRejected ==
    [][last'.op = "create_booking" =>
         \A d \in StartOffsets, s \in SpanChoices :
            ~ValidRange(today + d, today + d + s, today) =>
               \A c \in DOMAIN capsules, g \in DOMAIN guests :
                  CreateBooking(g, c, today + d, today + d + s)
                  => ( /\ last'.err = ( IF s <= 0 THEN "DateRangeInvalid"
                                        ELSE IF d < 0 THEN "DateInPast"
                                        ELSE "DurationTooLong" )
                       /\ bookings' = bookings
                       /\ capsules' = capsules
                       /\ guests' = guests
                       /\ booking_history' = booking_history
                       /\ objs' = objs
                       /\ next_booking_id' = next_booking_id )]_vars

\* a 31-day request was refused while a free capsule and a guest existed
C6_Witness ==
    /\ last = [op |-> "create_booking", err |-> "DurationTooLong"]
    /\ DOMAIN guests # {}
    /\ \E c \in DOMAIN capsules :
          capsules[c].is_available /\ capsules[c].current_booking = None

\* C7: check_out of a paid booking fails with PaymentLocked and changes
\* nothing: the booking stays in the ledger and paid, its capsule stays
\* occupied by it, and its guest's booking list still holds it.
C7_PaidCheckOutRejected ==
    [][last'.op = "check_out" =>
         \A id \in DOMAIN bookings :
            ( /\ objs[bookings[id]].is_paid
              /\ CheckOut(id) )
            => LET b == bookings[id]
                   bk == objs[b]
               IN /\ last'.err = "PaymentLocked"
                  /\ UNCHANGED domain_vars
                  /\ id \in DOMAIN bookings' /\ bookings'[id] = b
                  /\ objs'[b].is_paid
                  /\ ~capsules'[bk.capsule].is_available
                  /\ capsules'[bk.capsule].current_booking = b
                  /\ InList(guests'[bk.guest].bookings, b)]_vars

C7_Witness ==
    /\ last = [op |-> "check_out", err |-> "PaymentLocked"]
    /\ \E id \in DOMAIN bookings : objs[bookings[id]].is_paid

\* C8 as stated: check_out of an unpaid booking of the ledger succeeds,
\* removes it from the ledger, frees its capsule, takes it off its guest's
\* booking list, and the booking is still in the recent-history buffer.
C8_AsStated ==
    [][last'.op = "check_out" =>
         \A id \in DOMAIN bookings :
            ( /\ ~objs[bookings[id]].is_paid
              /\ CheckOut(id) )
            => LET b == bookings[id]
                   bk == objs[b]
               IN /\ last'.err = "OK"
                  /\ ~LedgerHas(bookings', b)
                  /\ capsules'[bk.capsule].is_available
                  /\ capsules'[bk.capsule].current_booking = None
                  /\ ~InList(guests'[bk.guest].bookings, b)
                  /\ InList(booking_history', b)]_vars

\* C8 (amended): check_out of an unpaid booking of the ledger succeeds and
\* is terminal: the booking leaves the ledger for good, its capsule is free
\* with no current booking, it is off its guest's booking list, and the
\* recent-history buffer is left as it was (so the booking is still in it
\* exactly when later bookings had not already evicted it).
C8_UnpaidCheckOut ==
    /\ [][last'.op = "check_out" =>
            \A id \in DOMAIN bookings :
               ( /\ ~objs[bookings[id]].is_paid
                 /\ CheckOut(id) )
               => LET b == bookings[id]
                      bk == objs[b]
                  IN /\ last'.err = "OK"
                     /\ ~LedgerHas(bookings', b)
                     /\ id \notin DOMAIN bookings'
                     /\ capsules'[bk.capsule].is_available
                     /\ capsules'[bk.capsule].current_booking = None
                     /\ ~InList(guests'[bk.guest].bookings, b)
                     /\ booking_history' = booking_history
                     /\ InList(booking_history, b) = InList(booking_history', b)]_vars
    /\ [][\A b \in 1..Len(objs) :
              ~LedgerHas(bookings, b) => ~LedgerHas(bookings', b)]_vars

\* a checked-out booking is still in the history buffer, its capsule free
C8_Witness ==
    /\ last = [op |-> "check_out", err |-> "OK"]
    /\ \E b \in 1..Len(objs) :
          /\ ~InLedger(b)
          /\ InList(booking_history, b)
          /\ capsules[objs[b].capsule].is_available
          /\ db_bookings # <<>>

\* C9: paid is permanent: a paid booking is paid in every later state, is in
\* the ledger, and its capsule is occupied by it.
C9_PaidIsPermanent ==
    [][\A b \in 1..Len(objs) :
          /\ objs[b].is_paid => objs'[b].is_paid
          /\ objs'[b].is_paid =>
                /\ LedgerHas(bookings', b)
                /\ ~capsules'[objs'[b].capsule].is_available
                /\ capsules'[objs'[b].capsule].current_booking = b]_vars

\* a booking paid on day 0 is still held on day 1, after further calls
C9_Witness ==
    /\ today > 0
    /\ \E id \in DOMAIN bookings :
          objs[bookings[id]].is_paid /\ objs[bookings[id]].created < today
    /\ last.op \in {"check_out", "create_booking"}

\* C10: mark_as_paid on an unpaid booking sets its paid flag and nothing
\* else; on a paid booking it fails with AlreadyPaid and changes nothing.
C10_MarkAsPaid ==
    [][last'.op = "mark_as_paid" =>
         \A id \in DOMAIN bookings :
            MarkAsPaid(id) =>
               LET b == bookings[id]
               IN IF objs[b].is_paid
                  THEN /\ last'.err = "AlreadyPaid"
                       /\ UNCHANGED domain_vars
                  ELSE /\ last'.err = "OK"
                       /\ objs' = [objs EXCEPT ![b].is_paid = TRUE]
                       /\ UNCHANGED <<guests, capsules, bookings,
                                      booking_history, next_booking_id>>]_vars

C10_Witness ==
    /\ last = [op |-> "mark_as_paid", err |-> "AlreadyPaid"]
    /\ \A id \in DOMAIN bookings : objs[bookings[id]].is_paid
    /\ bookings # <<>>

\* C11: create_booking with a guest id that is not in the guests collection
\* fails with GuestNotFound, and with a known guest but a capsule id that is
\* not in the capsules collection fails with CapsuleNotFound; either way the
\* ledger, every capsule, every guest's booking list, the history buffer and
\* the next booking id are as they were.
C11_UnknownIdsRejected ==
    [][last'.op = "create_booking" =>
         \A g \in GuestIds, c \in CapsuleIds :
            (g \notin DOMAIN guests \/ c \notin DOMAIN capsules) =>
               \A d \in StartOffsets, s \in SpanChoices :
                  CreateBooking(g, c, today + d, today + d + s)
                  => ( /\ last'.err = ( IF g \notin DOMAIN guests
                                        THEN "GuestNotFound"
                                        ELSE "CapsuleNotFound" )
                       /\ bookings' = bookings
                       /\ capsules' = capsules
                       /\ guests' = guests
                       /\ booking_history' = booking_history
                       /\ next_booking_id' = next_booking_id )]_vars

\* a known guest asked for a capsule the hotel does not have, while the
\* hotel already held a booking
C11_Witness ==
    /\ last = [op |-> "create_booking", err |-> "CapsuleNotFound"]
    /\ guests # <<>>
    /\ bookings # <<>>
    /\ Cardinality(DOMAIN capsules) < MaxCapsules

\* C12: check_out with a booking id that is not in the ledger (never
\* assigned, or already checked out) fails with BookingNotFound and leaves
\* all domain state as it was.
C12_UnknownBookingRejected ==
    [][last'.op = "check_out" =>
         \A id \in BookingIds :
            ( /\ id \notin DOMAIN bookings
              /\ CheckOut(id) )
            => ( /\ last'.err = "BookingNotFound"
                 /\ UNCHANGED domain_vars )]_vars

\* a second check_out of a booking that had been checked out, with another
\* booking still in the ledger
C12_Witness ==
    /\ last = [op |-> "check_out", err |-> "BookingNotFound"]
    /\ bookings # <<>>
    /\ \E b \in 1..Len(objs) :
          /\ ~InLedger(b)
          /\ objs[b].booking_id < next_booking_id
          /\ objs[b].booking_id \notin DOMAIN bookings

\* the failures the interface lists for create_booking
ListedFailures ==
    {"GuestNotFound", "CapsuleNotFound", "DateRangeInvalid", "DateInPast",
     "DurationTooLong"}

\* C13 as stated: every create_booking call returns a Booking or fails with
\* one of GuestNotFound, CapsuleNotFound, DateRangeInvalid, DateInPast,
\* DurationTooLong, and with nothing else.
C13_AsStated ==
    [][last'.op = "create_booking" =>
          last'.err \in {"OK"} \cup ListedFailures]_vars

\* C13 (amended): every create_booking call returns a Booking, stored in the
\* ledger under the next booking id, or fails with exactly one of the five
\* listed failures, CapsuleUnavailable, or the error of the storage step;
\* a failed call stores nothing in the ledger.
C13_CreateBookingOutcomes ==
    [][last'.op = "create_booking" =>
          /\ last'.err \in {"OK"} \cup ListedFailures
                           \cup {"CapsuleUnavailable", "StorageError"}
          /\ IF last'.err = "OK"
             THEN /\ next_booking_id \notin DOMAIN bookings
                  /\ DOMAIN bookings' = DOMAIN bookings \cup {next_booking_id}
                  /\ bookings'[next_booking_id] = Len(objs')
                  /\ objs'[Len(objs')].booking_id = next_booking_id
             ELSE bookings' = bookings]_vars

\* a call that got as far as the storage step and failed there
C13_Witness ==
    /\ last = [op |-> "create_booking", err |-> "StorageError"]
    /\ Len(objs) > 0
    /\ ~InLedger(Len(objs))

\* C15: a create_booking call that fails for any reason, a failure of the
\* storage step included, leaves the capsule, the guest's booking list, the
\* history buffer, the ledger and the next booking id as they were.
C15_AsStated ==
    [][(last'.op = "create_booking" /\ last'.err # "OK") =>
          /\ capsules' = capsules
          /\ guests' = guests
          /\ booking_history' = booking_history
          /\ bookings' = bookings
          /\ next_booking_id' = next_booking_id]_vars

\* C18: in a hotel started from empty storage the three counters start at 1;
\* a successful creation is stored under the counter of its kind, which then
\* advances by one, and leaves the other two counters alone; any other call
\* leaves all three counters and the sets of ids as they were, except that
\* check_out removes an id; so an id that left the ledger never returns.
C18_IdDiscipline ==
    /\ next_guest_id = 1 /\ next_capsule_id = 1 /\ next_booking_id = 1
    /\ [](/\ DOMAIN guests = 1..(next_guest_id - 1)
          /\ DOMAIN capsules = 1..(next_capsule_id - 1)
          /\ DOMAIN bookings \subseteq 1..(next_booking_id - 1))
    /\ [][/\ IF last'.op = "register_guest" /\ last'.err = "OK"
             THEN /\ next_guest_id' = next_guest_id + 1
                  /\ DOMAIN guests' = DOMAIN guests \cup {next_guest_id}
             ELSE /\ next_guest_id' = next_guest_id
                  /\ DOMAIN guests' = DOMAIN guests
          /\ IF last'.op = "add_capsule" /\ last'.err = "OK"
             THEN /\ next_capsule_id' = next_capsule_id + 1
                  /\ DOMAIN capsules' = DOMAIN capsules \cup {next_capsule_id}
             ELSE /\ next_capsule_id' = next_capsule_id
                  /\ DOMAIN capsules' = DOMAIN capsules
          /\ IF last'.op = "create_booking" /\ last'.err = "OK"
             THEN /\ next_booking_id' = next_booking_id + 1
                  /\ DOMAIN bookings' = DOMAIN bookings \cup {next_booking_id}
             ELSE /\ next_booking_id' = next_booking_id
                  /\ DOMAIN bookings' \subseteq DOMAIN bookings
          /\ \A id \in 1..(next_booking_id - 1) :
                id \notin DOMAIN bookings => id \notin DOMAIN bookings']_vars

\* booking 1 was checked out and a later booking got id 2, not 1, while the
\* guest counter stood elsewhere
C18_Witness ==
    /\ next_booking_id = 3
    /\ DOMAIN bookings = {2}
    /\ next_guest_id = 2
    /\ next_capsule_id = 3
    /\ last.err # "OK"

\* C14: the mark-paid operation of the front-end fails with BookingNotFound
\* when the booking id is not in the ledger and with AlreadyPaid when the
\* booking is paid, and otherwise marks the booking paid; it never returns
\* without one of the three.
C14_AsStated ==
    [][last'.op = "ui_mark_as_paid" =>
         \A id \in BookingIds :
            UiMarkAsPaid(id) =>
               IF id \notin DOMAIN bookings
               THEN last'.err = "BookingNotFound"
               ELSE IF objs[bookings[id]].is_paid
               THEN last'.err = "AlreadyPaid"
               ELSE objs'[bookings[id]].is_paid]_vars

\* the last k entries of a sequence that has at least k
LastOf(s, k) == SubSeq(s, Len(s) - k + 1, Len(s))

\* object b is a booking that create_booking returned: its id was consumed,
\* and no later object carries it (an object whose storage step failed
\* leaves its id to the next one)
WasCreated(b) ==
    /\ objs[b].booking_id < next_booking_id
    /\ \A b2 \in (b + 1)..Len(objs) : objs[b2].booking_id # objs[b].booking_id

\* the bookings create_booking returned, in creation order
CreatedInOrder == SelectSeq([i \in 1..Len(objs) |-> i], WasCreated)

\* C16: the recent-history buffer never holds more than its capacity; every
\* successful create_booking appends the new booking, a full buffer dropping
\* its oldest entry; and once more bookings were created than the buffer
\* holds, get_recent_bookings(k), for k up to the capacity, returns exactly
\* the k most recently created bookings in creation order.
C16_AsStated ==
    /\ [](Len(booking_history) <= HistoryMaxLen)
    /\ [][(last'.op = "create_booking" /\ last'.err = "OK") =>
             booking_history' =
                IF Len(booking_history) < HistoryMaxLen
                THEN Append(booking_history, Len(objs'))
                ELSE Append(Tail(booking_history), Len(objs'))]_vars
    /\ [][last'.op = "get_recent_bookings" =>
             \A k \in 1..HistoryMaxLen :
                ( /\ Len(CreatedInOrder) > HistoryMaxLen
                  /\ GetRecentBookings(k) )
                => last'.result = LastOf(CreatedInOrder, k)]_vars

\* C17: for every count >= 0, get_recent_bookings(count) returns the last
\* min(count, buffer size) entries of the buffer in insertion order.
C17_AsStated ==
    [][last'.op = "get_recent_bookings" =>
         \A count \in RecentCounts :
            GetRecentBookings(count) =>
               last'.result =
                  LastOf(booking_history,
                         IF count < Len(booking_history)
                         THEN count ELSE Len(booking_history))]_vars

\* C19: get_available_capsules(d) returns exactly the capsules of the
\* inventory that have no current booking or whose current booking starts
\* after d or ends before d, each once, and changes no state.
C19_AvailableCapsules ==
    [][last'.op = "get_available_capsules" =>
         \A k \in QueryOffsets :
            GetAvailableCapsules(today + k) =>
               LET d == today + k
                   res == last'.result
               IN /\ {res[i] : i \in 1..Len(res)} =
                        {c \in DOMAIN capsules :
                            \/ capsules[c].current_booking = None
                            \/ d < objs[capsules[c].current_booking].start_date
                            \/ d > objs[capsules[c].current_booking].end_date}
                  /\ \A i, j \in 1..Len(res) : i # j => res[i] # res[j]
                  /\ UNCHANGED domain_vars
                  /\ today' = today]_vars

\* a query for a day outside both stays lists both capsules, though both are
\* occupied, one of them by a booking that is in the ledger
C19_Witness ==
    /\ last.op = "get_available_capsules"
    /\ last.result = <<1, 2>>
    /\ \A c \in DOMAIN capsules : ~capsules[c].is_available
    /\ \E c \in DOMAIN capsules : InLedger(capsules[c].current_booking)

RECURSIVE SumTotals(_)
SumTotals(ids) ==
    IF ids = {} THEN 0
    ELSE LET id == CHOOSE x \in ids : TRUE
         IN CalculateTotal(objs[bookings[id]]) + SumTotals(ids \ {id})

GuestNameOf(id) == guests[objs[bookings[id]].guest].name

\* C20: get_guest_statistics maps each guest name that has a booking in the
\* ledger to the sum of calculate_total over the ledger bookings whose guest
\* carries that name, has no other key, counts no booking that was checked
\* out, and changes no state.
C20_GuestStatistics ==
    [][last'.op = "get_guest_statistics" =>
         ( GetGuestStatistics =>
              LET res == last'.result
              IN /\ DOMAIN res = {GuestNameOf(id) : id \in DOMAIN bookings}
                 /\ \A n \in DOMAIN res :
                       res[n] = SumTotals({id \in DOMAIN bookings :
                                              GuestNameOf(id) = n})
                 /\ UNCHANGED domain_vars )]_vars

\* the statistics of a ledger with two bookings, of two guests of one name,
\* after another booking was checked out
C20_Witness ==
    /\ last.op = "get_guest_statistics"
    /\ \E i, j \in DOMAIN bookings :
          /\ objs[bookings[i]].guest # objs[bookings[j]].guest
          /\ GuestNameOf(i) = GuestNameOf(j)
          /\ objs[bookings[i]].capsule # objs[bookings[j]].capsule
          /\ capsules[objs[bookings[i]].capsule].price_per_night
                # capsules[objs[bookings[j]].capsule].price_per_night
          /\ last.result[GuestNameOf(i)]
                = CalculateTotal(objs[bookings[i]])
                  + CalculateTotal(objs[bookings[j]])
    /\ \E b \in 1..Len(objs) : WasCreated(b) /\ ~InLedger(b)

\* the first condition a create_booking request violates, in the order
\* GuestNotFound, CapsuleNotFound, DateRangeInvalid, DateInPast,
\* DurationTooLong, CapsuleUnavailable
FirstFailure(g, c, st, en) ==
    IF g \notin DOMAIN guests THEN "GuestNotFound"
    ELSE IF c \notin DOMAIN capsules THEN "CapsuleNotFound"
    ELSE IF en <= st THEN "DateRangeInvalid"
    ELSE IF st < today THEN "DateInPast"
    ELSE IF en - st > MaxSpan THEN "DurationTooLong"
    ELSE IF ~capsules[c].is_available THEN "CapsuleUnavailable"
    ELSE "OK"

\* C27: a create_booking request that violates several conditions fails
\* with the first that applies in the order GuestNotFound, CapsuleNotFound,
\* DateRangeInvalid, DateInPast, DurationTooLong, CapsuleUnavailable, and a
\* request that fails leaves every capsule as it was; a request that
\* violates none passes all six tests.
C27_FirstFailureReported ==
    [][last'.op = "create_booking" =>
         \A g \in GuestIds, c \in CapsuleIds,
            d \in StartOffsets, s \in SpanChoices :
            CreateBooking(g, c, today + d, today + d + s) =>
               LET first == FirstFailure(g, c, today + d, today + d + s)
               IN IF first = "OK"
                  THEN last'.err \in {"OK", "StorageError"}
                  ELSE /\ last'.err = first
                       /\ capsules' = capsules]_vars

\* a request for a stay that starts in the past and is too long, made when
\* every capsule was occupied, was refused for its start
C27_Witness ==
    /\ last = [op |-> "create_booking", err |-> "DateInPast"]
    /\ Cardinality(DOMAIN capsules) = MaxCapsules
    /\ Cardinality(DOMAIN guests) = MaxGuests
    /\ \A c \in DOMAIN capsules : ~capsules[c].is_available

\* C28 as stated: capsule occupancy and the ledger agree: a capsule's flag
\* is false exactly when it has a current booking; that current booking is
\* in the ledger and names this capsule; every booking of the ledger is the
\* current booking of its capsule.
C28_AsStated ==
    /\ \A c \in DOMAIN capsules :
          /\ ~capsules[c].is_available <=> capsules[c].current_booking # None
          /\ capsules[c].current_booking # None =>
                /\ InLedger(capsules[c].current_booking)
                /\ objs[capsules[c].current_booking].capsule = c
    /\ \A id \in DOMAIN bookings :
          capsules[objs[bookings[id]].capsule].current_booking = bookings[id]

\* the positions of a list hold increasing object indices: each object once,
\* in the order of creation
InCreationOrder(s) == \A i, j \in 1..Len(s) : i < j => s[i] < s[j]

\* C29 as stated: each guest's booking list holds exactly the ledger
\* bookings of that guest, each once and in creation order; the guest and
\* the capsule of every ledger booking are in the hotel's collections, and
\* these collections never shrink.
C29_AsStated ==
    /\ [](\A g \in DOMAIN guests :
            /\ \A b \in 1..Len(objs) :
                  InList(guests[g].bookings, b)
                     <=> (InLedger(b) /\ objs[b].guest = g)
            /\ InCreationOrder(guests[g].bookings))
    /\ [](\A id \in DOMAIN bookings :
            /\ objs[bookings[id]].guest \in DOMAIN guests
            /\ objs[bookings[id]].capsule \in DOMAIN capsules)
    /\ [][/\ DOMAIN guests \subseteq DOMAIN guests'
          /\ DOMAIN capsules \subseteq DOMAIN capsules']_vars

\* what create_booking answers in the current state when storage works
CreateBookingAnswer(g, c, st, en) ==
    IF FindGuestAndCapsule(g, c) # "OK"
    THEN FindGuestAndCapsule(g, c)
    ELSE BookingInit(Len(objs) + 1, next_booking_id, g, c, guests[g],
                     capsules[c], booking_history, db_bookings,
                     st, en, today, TRUE).err

\* C30 as stated: every capsule that get_available_capsules(d) returns
\* accepts a create_booking by an existing guest for a valid range that
\* starts on d (d >= today, end in (d, d + 30]) made right after the query.
C30_AsStated ==
    \A k \in QueryOffsets :
       k >= 0 =>
          \A i \in 1..Len(AvailableCapsules(today + k)) :
             \A g \in DOMAIN guests, s \in 1..MaxSpan :
                CreateBookingAnswer(g, AvailableCapsules(today + k)[i],
                                    today + k, today + k + s) = "OK"

\* C21: calculate_total of a booking is its number of nights (end - start,
\* in days) times the nightly price of its capsule, so three times the
\* price for a stay from today to today + 3; and after a successful
\* create_booking the capsule of the new booking is not available.
C21_TotalAndOccupancy ==
    /\ [][last'.op = "calculate_total" =>
            \A id \in DOMAIN bookings :
               GetTotal(id) =>
                  LET bk == objs[bookings[id]]
                      price == capsules[bk.capsule].price_per_night
                  IN /\ last'.result = (bk.end_date - bk.start_date) * price
                     /\ bk.end_date = bk.created + 3 /\ bk.start_date = bk.created
                           => last'.result = price + price + price]_vars
    /\ [][last'.op = "create_booking" /\ last'.err = "OK" =>
            /\ next_booking_id \in DOMAIN bookings'
            /\ ~capsules'[objs'[bookings'[next_booking_id]].capsule].is_available]_vars

\* the total of a three-night stay in an occupied capsule was asked for
C21_Witness ==
    /\ last.op = "calculate_total"
    /\ \E id \in DOMAIN bookings :
          LET bk == objs[bookings[id]]
          IN /\ bk.end_date = bk.start_date + 3
             /\ last.result = 3 * capsules[bk.capsule].price_per_night
             /\ last.result > 0
             /\ ~capsules[bk.capsule].is_available
             /\ Cardinality(DOMAIN bookings) = 1

\* the base price the claim names for a type
StatedBasePrice(capsule_type) ==
    IF capsule_type = TYPE_STANDARD THEN 1500
    ELSE IF capsule_type = TYPE_LUX THEN 2500
    ELSE IF capsule_type = TYPE_PREMIUM THEN 3500
    ELSE 1000

\* C22: the nightly price of every capsule lies within 10% of the base
\* price of its type (1500 Standard, 2500 Lux, 3500 Premium, 1000 for any
\* other type), and no operation changes the type or the price of a capsule
\* once it is created.
C22_PriceInRangeAndFixed ==
    /\ [](\A c \in DOMAIN capsules :
            LET base == StatedBasePrice(capsules[c].type)
                price == capsules[c].price_per_night
            IN /\ 10 * (price - base) <= base
               /\ 10 * (base - price) <= base)
    /\ [][\A c \in DOMAIN capsules :
            /\ c \in DOMAIN capsules'
            /\ capsules'[c].price_per_night = capsules[c].price_per_night
            /\ capsules'[c].type = capsules[c].type]_vars

\* a capsule of an unrecognised type at the upper end of its range holds a
\* paid booking, after another capsule was booked and checked out
C22_Witness ==
    /\ last = [op |-> "check_out", err |-> "OK"]
    /\ \E c \in DOMAIN capsules :
          /\ capsules[c].type = TYPE_UNKNOWN
          /\ capsules[c].price_per_night = 1100
          /\ capsules[c].current_booking # None
          /\ objs[capsules[c].current_booking].is_paid
    /\ \E b \in 1..Len(objs) :
          /\ ~InLedger(b)
          /\ capsules[objs[b].capsule].price_per_night = 3150

\* C24 as stated: when the process stops and a Hotel is rebuilt from storage
\* in a new process, every guest, every capsule and every booking of the
\* ledger is there again under its id, and no booking that had left the
\* ledger is in it.
C24_AsStated ==
    [][last'.op = "restart" =>
         /\ \A g \in DOMAIN guests :
               /\ g \in DOMAIN guests'
               /\ guests'[g].name = guests[g].name
               /\ guests'[g].passport = guests[g].passport
         /\ \A c \in DOMAIN capsules :
               /\ c \in DOMAIN capsules'
               /\ capsules'[c].type = capsules[c].type
         /\ \A id \in DOMAIN bookings :
               /\ id \in DOMAIN bookings'
               /\ objs'[bookings'[id]].guest = objs[bookings[id]].guest
               /\ objs'[bookings'[id]].capsule = objs[bookings[id]].capsule
         /\ \A id \in DOMAIN bookings' : id \in DOMAIN bookings]_vars

\* C25: after a Hotel is rebuilt from storage each id counter is greater
\* than every stored id of its kind, and 1 when nothing of the kind is
\* stored; no booking is ever created under an id that storage already
\* holds.
C25_CountersAboveStoredIds ==
    /\ [][last'.op = "restart" =>
            /\ \A id \in DOMAIN db_bookings' : next_booking_id' > id
            /\ \A id \in DOMAIN db_guests : next_guest_id' > id
            /\ \A id \in DOMAIN db_capsules : next_capsule_id' > id
            /\ DOMAIN db_bookings' = {} => next_booking_id' = 1
            /\ DOMAIN db_guests = {} => next_guest_id' = 1
            /\ DOMAIN db_capsules = {} => next_capsule_id' = 1]_vars
    /\ [][last'.op = "create_booking" /\ last'.err = "OK" =>
            /\ next_booking_id \notin DOMAIN db_bookings
            /\ next_booking_id \in DOMAIN db_bookings']_vars

\* a second run of the process, begun with two stored bookings, has created
\* its first booking under id 3
C25_Witness ==
    /\ last = [op |-> "create_booking", err |-> "OK"]
    /\ DOMAIN db_bookings = {1, 2, 3}
    /\ DOMAIN bookings = {3}
    /\ Len(objs) = 1
    /\ next_booking_id = 4

\* C23: the availability test of a create_booking call looks at the flag
\* alone, and nothing ties it to the assignment that follows: a call that
\* makes its test while the flag is still set goes on to take the capsule,
\* also when another session has passed the same test and not yet cleared
\* the flag; and nothing later in the call tests the capsule again.  So two
\* calls for one free capsule can both succeed (C23_Witness).
C23_TornTestAndSet ==
    [][\A s \in Sessions :
          /\ ( /\ calls[s].pc = "book_test"
               /\ calls'[s] # calls[s]
               /\ capsules[calls[s].capsule_id].is_available )
             => calls'[s].pc = "book_flag"
          /\ ( /\ calls[s].pc \in {"book_flag", "book_ref", "add_booking",
                                   "history", "save", "store", "incr"}
               /\ calls'[s].pc = "idle" )
             => last'.err \in {"OK", "StorageError"}]_vars

\* both sessions have returned from create_booking without an error, and
\* the ledger holds two bookings that occupy one capsule
C23_Witness ==
    /\ AllIdle
    /\ last = [op |-> "create_booking", err |-> "OK"]
    /\ \E i, j \in DOMAIN bookings :
          /\ bookings[i] # bookings[j]
          /\ objs[bookings[i]].capsule = objs[bookings[j]].capsule
          /\ objs[bookings[i]].created = objs[bookings[j]].created

\* C26 as stated: when the create_booking calls of two chat sessions
\* interleave statement by statement, no two bookings stored in the ledger
\* were given the same id, every booking is stored under the id it was
\* given, and no stored booking is overwritten by another.
C26_AsStated ==
    /\ [](\A i, j \in DOMAIN bookings :
            i # j => objs[bookings[i]].booking_id # objs[bookings[j]].booking_id)
    /\ [](\A i \in DOMAIN bookings : objs[bookings[i]].booking_id = i)
    /\ [][\A i \in DOMAIN bookings :
            i \in DOMAIN bookings' /\ bookings'[i] = bookings[i]]_vars

\* C31 as stated: when create_booking, check_out or register_guest, called
\* by a handler of the bot, fails with a domain error, the handler sends the
\* error to the chat.
C31_AsStated ==
    [][( /\ last'.op \in {"create_booking", "check_out", "register_guest"}
         /\ last'.err \in DomainErrors )
       => HandlerReply(last') = "Error"]_vars

\* C33 as stated: /demo_vip, whether it succeeds or answers with an error,
\* leaves every capsule's flag and current booking, every guest's booking
\* list, the ledger and the history buffer as they were.
C33_AsStated ==
    [][last'.op = "demo_vip" =>
         /\ capsules' = capsules
         /\ guests' = guests
         /\ bookings' = bookings
         /\ booking_history' = booking_history]_vars

\* the domain state held in memory: everything but the clock, the table of
\* stored bookings and the bookkeeping of calls
memory_vars == <<guests, capsules, bookings, objs, used_passports,
                 booking_history, next_guest_id, next_capsule_id,
                 next_booking_id>>

\* the state check_out leaves for booking id: booking gone from the ledger,
\* its capsule free, its guest's list without it; nothing at all when the
\* id is not in the ledger or the booking is paid
CheckedOutState(id) ==
    IF id \in DOMAIN bookings /\ ~objs[bookings[id]].is_paid
    THEN LET b == bookings[id]
             bk == objs[b]
         IN /\ bookings' = [k \in DOMAIN bookings \ {id} |-> bookings[k]]
            /\ capsules' = [capsules EXCEPT
                               ![bk.capsule].is_available = TRUE,
                               ![bk.capsule].current_booking = None]
            /\ guests' = [guests EXCEPT ![bk.guest].bookings =
                             SelectSeq(@, LAMBDA x : x # b)]
            /\ UNCHANGED <<objs, used_passports, booking_history,
                           next_guest_id, next_capsule_id, next_booking_id>>
    ELSE UNCHANGED memory_vars

\* the state mark_as_paid leaves for booking id
MarkedPaidState(id) ==
    IF id \in DOMAIN bookings /\ ~objs[bookings[id]].is_paid
    THEN /\ objs' = [objs EXCEPT ![bookings[id]].is_paid = TRUE]
         /\ UNCHANGED <<guests, capsules, bookings, used_passports,
                        booking_history, next_guest_id, next_capsule_id,
                        next_booking_id>>
    ELSE UNCHANGED memory_vars

\* C32: the cancel button of the desktop window, confirmed, on the row of
\* booking id leaves exactly the domain state that Hotel.check_out(id)
\* leaves, nothing changed where check_out fails; its mark-paid button
\* leaves exactly the state of mark_as_paid on that booking.  Declined, or
\* with no row selected, the cancel button changes nothing.
C32_ButtonsActAsTheHotel ==
    /\ [][last'.op \in {"check_out", "ui_cancel_booking"} =>
            /\ \A id \in BookingIds :
                  (CheckOut(id) \/ UiCancelBooking(id, TRUE))
                     => CheckedOutState(id)
            /\ (UiCancelBooking(None, TRUE) \/ \E id \in BookingIds :
                   UiCancelBooking(id, FALSE)) => UNCHANGED memory_vars]_vars
    /\ [][last'.op \in {"mark_as_paid", "ui_mark_as_paid"} =>
            \A id \in BookingIds :
               (MarkAsPaid(id) \/ UiMarkAsPaid(id)) => MarkedPaidState(id)]_vars

\* the cancel button has taken a booking out of the ledger and freed its
\* capsule, while a booking marked paid by the other button (its row is
\* stored as paid) stays
C32_Witness ==
    /\ last = [op |-> "ui_cancel_booking", err |-> "OK"]
    /\ \E b \in 1..Len(objs) :
          /\ ~InLedger(b)
          /\ WasCreated(b)
          /\ capsules[objs[b].capsule].is_available
          /\ ~InList(guests[objs[b].guest].bookings, b)
    /\ \E id \in DOMAIN bookings :
          /\ objs[bookings[id]].is_paid
          /\ id \in DOMAIN db_bookings
          /\ db_bookings[id].is_paid

====
